---- MODULE Spec2Model ----
(***************************************************************************)
(* Dictionary-based IO transforms of monai/transforms/io/dictionary.py:    *)
(* LoadImaged and SaveImaged.  One adapter instance is constructed, then   *)
(* register() and __call__() are invoked on it.  A __call__ is modelled    *)
(* statement by statement: the shallow copy, one step of the for loop per  *)
(* configured key, and the return.  The caller's mapping and the working   *)
(* copy live in a small heap so that aliasing between them is expressible. *)
(***************************************************************************)
EXTENDS Integers, Sequences, FiniteSets, TLC

VARIABLES
    cls,                \* "LoadImaged" or "SaveImaged": the class of the instance
    keys,               \* self.keys, fixed at construction
    allow_missing_keys, \* self.allow_missing_keys, fixed at construction
    readers,            \* self._loader.readers, the candidate list of the loader
    registered,         \* history: the readers passed to register(), in call order
    pc,                 \* "idle", "iter" (inside the for loop), "done", "error"
    heap,               \* the two mappings of a call: heap.caller is `data`, heap.copy is dict(data)
    d,                  \* the mapping the local name `d` refers to: "caller" or "copy"
    reader,             \* the per-call reader argument of LoadImaged.__call__
    idx,                \* position of key_iterator in self.keys
    calls,              \* history: invocations of the wrapped service during this call
    err,                \* the exception that left __call__, or NoError
    ret,                \* the mapping __call__ returned: "none", "caller" or "copy"
    data0               \* history: content of `data` when __call__ was entered

vars == << cls, keys, allow_missing_keys, readers, registered, pc, heap, d,
           reader, idx, calls, err, ret, data0 >>

(***************************************************************************)
(* Bounds of the model.                                                    *)
(***************************************************************************)
MaxKeys == 2        \* longest configured key sequence
MaxRegistered == 2  \* most register() calls on one instance

(***************************************************************************)
(* Values.                                                                 *)
(***************************************************************************)
Keys == {"img", "seg", "lbl"}

None_ == "None"
NoError == "NoError"
KeyError == "KeyError"

File(n) == [kind |-> "file", name |-> n, by |-> "-"]
Array(n, r) == [kind |-> "array", name |-> n, by |-> r]
NoValue == [kind |-> "none", name |-> "-", by |-> "-"]

FileRefs == {File("scan.nii.gz"), File("pic.png"), File("corrupt.nii.gz")}
SaveValues == {Array("vol", "mem"), File("scan.nii.gz")}

RecordValues(c) == IF c = "LoadImaged" THEN FileRefs ELSE SaveValues

EmptyRecord == [k \in {} |-> NoValue]

Records(c) == UNION {[S -> RecordValues(c)] : S \in SUBSET Keys}

IsDistinct(s) == \A i, j \in 1..Len(s) : i # j => s[i] # s[j]

KeySeqs == {s \in UNION {[1..n -> Keys] : n \in 1..MaxKeys} : IsDistinct(s)}

DEFAULT_POST_FIX == "meta_dict"

meta_key(k) == k \o "_" \o DEFAULT_POST_FIX

(***************************************************************************)
(* The wrapped services and the base class.                                *)
(***************************************************************************)
DefaultReaders == << "ITKReader", "NumpyReader", "PILReader", "NibabelReader" >>

CustomReaders == {"ReaderA", "ReaderB"}

Suffix(v) ==
    CASE v.name = "scan.nii.gz" -> "nii.gz"
      [] v.name = "corrupt.nii.gz" -> "nii.gz"
      [] v.name = "pic.png" -> "png"
      [] OTHER -> ""

verify_suffix(r, v) ==
    CASE r = "NibabelReader" -> Suffix(v) = "nii.gz"
      [] r = "PILReader" -> Suffix(v) = "png"
      [] r = "NumpyReader" -> Suffix(v) = "npy"
      [] r = "ITKReader" -> TRUE
      [] r = "ReaderA" -> Suffix(v) \in {"nii.gz", "png"}
      [] r = "ReaderB" -> Suffix(v) = "nii.gz"
      [] OTHER -> FALSE

Ok(v) == [ok |-> TRUE, value |-> v, error |-> NoError]
Raise(e) == [ok |-> FALSE, value |-> NoValue, error |-> e]

\* reader.read + reader.get_data of one backend on one file reference
ReaderRead(r, v) ==
    IF v.kind # "file" THEN Raise("TypeError")
    ELSE IF ~verify_suffix(r, v) THEN Raise("UnsupportedFormat")
    ELSE IF v.name = "corrupt.nii.gz" THEN Raise("ReadError")
    ELSE Ok(Array(v.name, r))

\* index of the last candidate that claims the input, 0 when there is none
LastSupporting(rs, v) ==
    LET S == {i \in 1..Len(rs) : verify_suffix(rs[i], v)}
    IN  IF S = {} THEN 0 ELSE CHOOSE i \in S : \A j \in S : j <= i

\* LoadImage.__call__(filename, reader)
LoadImage(rs, v, rd) ==
    IF rd # None_ THEN ReaderRead(rd, v)
    ELSE LET i == LastSupporting(rs, v)
         IN  IF i = 0 THEN Raise("RuntimeError") ELSE ReaderRead(rs[i], v)

\* LoadImage.register(reader)
LoadImage_register(rs, r) == Append(rs, r)

\* SaveImage.__call__(img); io_ok is the outcome of the write to storage
SaveImage(v, io_ok) ==
    IF v.kind # "array" THEN Raise("EncodingError")
    ELSE IF ~io_ok THEN Raise("IOError")
    ELSE Ok(NoValue)

\* MapTransform.key_iterator(data) advanced to position i of ks
key_iterator(ks, allow, m, i) ==
    IF i > Len(ks) THEN [kind |-> "stop", key |-> ""]
    ELSE IF ks[i] \in DOMAIN m THEN [kind |-> "yield", key |-> ks[i]]
    ELSE IF ~allow THEN [kind |-> "raise", key |-> ks[i]]
    ELSE [kind |-> "skip", key |-> ks[i]]

(***************************************************************************)
(* Statements of dictionary.py.                                            *)
(***************************************************************************)
\* the adapter never copies: `d = data`
dict_alias(h, src) == [heap |-> h, ref |-> src]

\* d = dict(data)
dict_copy(h, src) == [heap |-> [h EXCEPT !.copy = h[src]], ref |-> "copy"]

\* the loop ignores allow_missing_keys: `for key in self.keys: if key in d`
for_key_in_lenient(ks, allow, m, i) == key_iterator(ks, TRUE, m, i)

\* the iterator is exhausted before the loop body runs: `for key in list(...)`
for_key_in_eager(ks, allow, m, i) ==
    IF i <= Len(ks) /\ ~allow /\ \E j \in 1..Len(ks) : ks[j] \notin DOMAIN m
    THEN [kind |-> "raise", key |-> ks[i]]
    ELSE key_iterator(ks, allow, m, i)

\* the loop walks the keys backwards: `for key in reversed(...)`
for_key_in_reversed(ks, allow, m, i) ==
    key_iterator([j \in 1..Len(ks) |-> ks[Len(ks) + 1 - j]], allow, m, i)

\* for key in self.key_iterator(d)
for_key_in(ks, allow, m, i) == key_iterator(ks, allow, m, i)

\* the per-call reader is dropped: `self._loader(d[key])`
loader_call_no_reader(rs, m, key, rd) == LoadImage(rs, m[key], None_)

\* self._loader(d[key], reader)
loader_call(rs, m, key, rd) == LoadImage(rs, m[key], rd)

\* the result is not written back: `self._loader(d[key], reader)` alone
store_loaded_dropped(m, key, val) == m

\* d[key] = <loaded>
store_loaded(m, key, val) ==
    [k \in DOMAIN m \cup {key} |-> IF k = key THEN val ELSE m[k]]

\* the saver's result is written back: `d[key] = self.saver(img=d[key])`
after_save_assigned(m, key, out) ==
    [k \in DOMAIN m \cup {key} |-> IF k = key THEN out.value ELSE m[k]]

\* self.saver(img=d[key]) is an expression statement: d is left alone
after_save(m, key, out) == m

\* a failed invocation is repeated once before the error is let through
invoke_with_retry(log, key, val, rd, out) ==
    LET e == [key |-> key, img |-> val, reader |-> rd, out |-> out]
    IN  IF out.ok THEN Append(log, e) ELSE Append(Append(log, e), e)

\* one invocation of the wrapped service, as seen by the service
invoke(log, key, val, rd, out) ==
    Append(log, [key |-> key, img |-> val, reader |-> rd, out |-> out])

\* register() forgets to forward to the loader
LoadImaged_register_noop(rs, r) == rs

\* LoadImaged.register: self._loader.register(reader)
LoadImaged_register(rs, r) == LoadImage_register(rs, r)

(***************************************************************************)
(* State machine.                                                          *)
(***************************************************************************)
Init ==
    /\ cls \in {"LoadImaged", "SaveImaged"}
    /\ keys \in KeySeqs
    /\ allow_missing_keys \in BOOLEAN
    /\ readers = DefaultReaders
    /\ registered = << >>
    /\ pc = "idle"
    /\ heap = [caller |-> EmptyRecord, copy |-> EmptyRecord]
    /\ d = "copy"
    /\ reader = None_
    /\ idx = 1
    /\ calls = << >>
    /\ err = NoError
    /\ ret = "none"
    /\ data0 = EmptyRecord

\* LoadImaged.register(reader)
Register(r) ==
    /\ cls = "LoadImaged"
    /\ pc = "idle"
    /\ Len(registered) < MaxRegistered
    /\ readers' = LoadImaged_register(readers, r)
    /\ registered' = Append(registered, r)
    /\ UNCHANGED << cls, keys, allow_missing_keys, pc, heap, d, reader, idx,
                    calls, err, ret, data0 >>

\* entry of __call__(data, reader) up to `d = dict(data)`
Call(rec, rd) ==
    /\ pc = "idle"
    /\ cls = "SaveImaged" => rd = None_
    /\ LET c == dict_copy([caller |-> rec, copy |-> EmptyRecord], "caller")
       IN  /\ heap' = c.heap
           /\ d' = c.ref
    /\ data0' = rec
    /\ reader' = rd
    /\ idx' = 1
    /\ calls' = << >>
    /\ err' = NoError
    /\ ret' = "none"
    /\ pc' = "iter"
    /\ UNCHANGED << cls, keys, allow_missing_keys, readers, registered >>

Cur == for_key_in(keys, allow_missing_keys, heap[d], idx)

\* key_iterator passes over a configured key that is absent from d
SkipMissing ==
    /\ pc = "iter"
    /\ Cur.kind = "skip"
    /\ idx' = idx + 1
    /\ UNCHANGED << cls, keys, allow_missing_keys, readers, registered, pc,
                    heap, d, reader, calls, err, ret, data0 >>

\* key_iterator raises KeyError for a configured key that is absent from d
RaiseMissing ==
    /\ pc = "iter"
    /\ Cur.kind = "raise"
    /\ pc' = "error"
    /\ err' = KeyError
    /\ UNCHANGED << cls, keys, allow_missing_keys, readers, registered,
                    heap, d, reader, idx, calls, ret, data0 >>

\* loop body of LoadImaged.__call__: d[key] = self._loader(d[key], reader)
LoadBody ==
    /\ pc = "iter"
    /\ cls = "LoadImaged"
    /\ Cur.kind = "yield"
    /\ LET key == Cur.key
           out == loader_call(readers, heap[d], key, reader)
       IN  /\ calls' = invoke(calls, key, heap[d][key], reader, out)
           /\ IF out.ok
              THEN /\ heap' = [heap EXCEPT ![d] = store_loaded(@, key, out.value)]
                   /\ idx' = idx + 1
                   /\ UNCHANGED << pc, err >>
              ELSE /\ pc' = "error"
                   /\ err' = out.error
                   /\ UNCHANGED << heap, idx >>
    /\ UNCHANGED << cls, keys, allow_missing_keys, readers, registered, d,
                    reader, ret, data0 >>

\* loop body of SaveImaged.__call__: self.saver(img=d[key])
SaveBody(io_ok) ==
    /\ pc = "iter"
    /\ cls = "SaveImaged"
    /\ Cur.kind = "yield"
    /\ LET key == Cur.key
           out == SaveImage(heap[d][key], io_ok)
       IN  /\ calls' = invoke(calls, key, heap[d][key], None_, out)
           /\ IF out.ok
              THEN /\ heap' = [heap EXCEPT ![d] = after_save(@, key, out)]
                   /\ idx' = idx + 1
                   /\ UNCHANGED << pc, err >>
              ELSE /\ pc' = "error"
                   /\ err' = out.error
                   /\ UNCHANGED << heap, idx >>
    /\ UNCHANGED << cls, keys, allow_missing_keys, readers, registered, d,
                    reader, ret, data0 >>

\* return d
Return ==
    /\ pc = "iter"
    /\ Cur.kind = "stop"
    /\ pc' = "done"
    /\ ret' = d
    /\ UNCHANGED << cls, keys, allow_missing_keys, readers, registered,
                    heap, d, reader, idx, calls, err, data0 >>

\* the call is over: its frame and its outcome are dropped, the instance stays
Discard ==
    /\ pc \in {"done", "error"}
    /\ pc' = "idle"
    /\ heap' = [caller |-> EmptyRecord, copy |-> EmptyRecord]
    /\ d' = "copy"
    /\ reader' = None_
    /\ idx' = 1
    /\ calls' = << >>
    /\ err' = NoError
    /\ ret' = "none"
    /\ data0' = EmptyRecord
    /\ UNCHANGED << cls, keys, allow_missing_keys, readers, registered >>

Next ==
    \/ \E r \in CustomReaders : Register(r)
    \/ \E rec \in Records(cls), rd \in {None_} \cup CustomReaders : Call(rec, rd)
    \/ SkipMissing
    \/ RaiseMissing
    \/ LoadBody
    \/ \E io_ok \in BOOLEAN : SaveBody(io_ok)
    \/ Return
    \/ Discard

Spec == Init /\ [][Next]_vars

(***************************************************************************)
(* Vocabulary of the properties.                                           *)
(***************************************************************************)
Finished == pc \in {"done", "error"}

Present(i) == keys[i] \in DOMAIN data0

AllPresent == \A i \in 1..Len(keys) : Present(i)

SomeMissing == \E i \in 1..Len(keys) : ~Present(i)

FirstMissing == CHOOSE i \in 1..Len(keys) : ~Present(i) /\ \A j \in 1..(i - 1) : Present(j)

IsPresentKey(k) == k \in DOMAIN data0

PresentKeys == SelectSeq(keys, IsPresentKey)

CallKeys == [i \in 1..Len(calls) |-> calls[i].key]

LastCallFailed ==
    /\ Len(calls) > 0
    /\ ~calls[Len(calls)].out.ok
    /\ err = calls[Len(calls)].out.error

\* the wrapped load service invoked directly on the original value at key k
DirectLoad(k) == LoadImage(readers, data0[k], reader)

(***************************************************************************)
(* C1: for a record that contains every configured key, a LoadImaged call  *)
(* that returns has, at each configured key, the value the wrapped loader  *)
(* yields when invoked directly on the original value at that key with the *)
(* same reader override.                                                   *)
(***************************************************************************)
C1_LoadEqualsDirect ==
    (cls = "LoadImaged" /\ pc = "done" /\ AllPresent) =>
        \A i \in 1..Len(keys) :
            /\ DirectLoad(keys[i]).ok
            /\ heap[ret][keys[i]] = DirectLoad(keys[i]).value

C1_Witness ==
    /\ cls = "LoadImaged" /\ pc = "done" /\ AllPresent
    /\ Len(keys) = 2 /\ reader = "ReaderA"
    /\ data0[keys[1]] # data0[keys[2]]

(***************************************************************************)
(* C2 as stated: when the record lacks a configured key, the call ends in  *)
(* the missing-key error if allow_missing_keys is False, and completes     *)
(* without error, the key still absent, if it is True.                     *)
(***************************************************************************)
C2_Original ==
    (Finished /\ SomeMissing) =>
        IF ~allow_missing_keys
        THEN pc = "error" /\ err = KeyError
        ELSE /\ pc = "done" /\ err = NoError
             /\ \A i \in 1..Len(keys) : ~Present(i) => keys[i] \notin DOMAIN heap[ret]

(***************************************************************************)
(* C2 amended: when the record lacks a configured key and                  *)
(* allow_missing_keys is False, the call never returns: it ends in the     *)
(* missing-key error at the first absent configured key, unless the        *)
(* wrapped service raised for an earlier configured key, in which case     *)
(* that error ends the call.  When allow_missing_keys is True no           *)
(* missing-key error is raised, the only error that can end the call is    *)
(* one raised by the wrapped service, and a call that returns leaves each  *)
(* absent configured key absent from the returned record.                  *)
(***************************************************************************)
C2_MissingKeyPolicy ==
    (Finished /\ SomeMissing) =>
        IF ~allow_missing_keys
        THEN /\ pc = "error"
             /\ err = KeyError => idx = FirstMissing
             /\ err # KeyError => idx < FirstMissing /\ LastCallFailed
        ELSE /\ err # KeyError
             /\ pc = "error" => LastCallFailed
             /\ pc = "done" =>
                    \A i \in 1..Len(keys) : ~Present(i) => keys[i] \notin DOMAIN heap[ret]

C2_Witness ==
    /\ cls = "SaveImaged" /\ ~allow_missing_keys
    /\ pc = "error" /\ err = KeyError
    /\ Len(calls) = 1

(***************************************************************************)
(* C3: a SaveImaged call that returns gives back a record with exactly the *)
(* keys of the input and the input's value at every key.                   *)
(***************************************************************************)
C3_SavePreservesRecord ==
    (cls = "SaveImaged" /\ pc = "done") => heap[ret] = data0

C3_Witness ==
    /\ cls = "SaveImaged" /\ pc = "done"
    /\ Len(calls) >= 1
    /\ \E k \in DOMAIN data0 : \A i \in 1..Len(keys) : keys[i] # k

(***************************************************************************)
(* C4: the caller's mapping is never mutated: during and after every call, *)
(* however it ends, it has the keys and values it had on entry; the        *)
(* adapter works on, and returns, a separate mapping.                      *)
(***************************************************************************)
C4_CallerNotMutated ==
    pc # "idle" =>
        /\ heap.caller = data0
        /\ d = "copy"
        /\ pc = "done" => ret = "copy"

C4_Witness ==
    /\ cls = "LoadImaged" /\ pc = "done"
    /\ heap.copy # data0
    /\ DOMAIN data0 # {}

(***************************************************************************)
(* C5 as stated: after a LoadImaged call with the default loader, the      *)
(* returned record holds the loaded array at each loaded key and gains a   *)
(* metadata entry under the key plus "_meta_dict".                         *)
(***************************************************************************)
C5_MetaKeyCreated ==
    (cls = "LoadImaged" /\ pc = "done" /\ registered = << >> /\ reader = None_) =>
        \A i \in 1..Len(keys) :
            Present(i) =>
                /\ heap[ret][keys[i]].kind = "array"
                /\ meta_key(keys[i]) \in DOMAIN heap[ret]

(***************************************************************************)
(* C6 as stated: when a call fails after earlier configured keys were      *)
(* processed, those keys remain mutated in the record the user sees.       *)
(***************************************************************************)
C6_Original ==
    (cls = "LoadImaged" /\ pc = "error") =>
        \A j \in 1..(idx - 1) :
            Present(j) => heap.caller[keys[j]] = DirectLoad(keys[j]).value

(***************************************************************************)
(* C6 amended: when a call fails after earlier configured keys were        *)
(* processed there is no rollback of the working copy: at the moment of    *)
(* the error it still holds the loaded value at each key processed so far. *)
(* The working copy is not returned, and the record the user sees, the     *)
(* caller's own mapping, shows none of these mutations.                    *)
(***************************************************************************)
C6_NoRollbackOfCopy ==
    (cls = "LoadImaged" /\ pc = "error") =>
        /\ ret = "none"
        /\ \A j \in 1..(idx - 1) :
              Present(j) =>
                  /\ DirectLoad(keys[j]).ok
                  /\ heap[d][keys[j]] = DirectLoad(keys[j]).value
                  /\ heap.caller[keys[j]] = data0[keys[j]]

C6_Witness ==
    /\ cls = "LoadImaged" /\ pc = "error" /\ err # KeyError
    /\ idx = 2 /\ Present(1)
    /\ heap.copy[keys[1]].kind = "array"

(***************************************************************************)
(* C7: an error raised by the wrapped service ends the call at once with   *)
(* that same error: the failed invocation is the last one, it is the only  *)
(* invocation for its key, and no configured key after it is processed.    *)
(***************************************************************************)
C7_NoRetryNoTranslation ==
    /\ \A i \in 1..Len(calls) :
          ~calls[i].out.ok =>
              /\ i = Len(calls)
              /\ pc = "error"
              /\ err = calls[i].out.error
              /\ calls[i].key = keys[idx]
              /\ \A j \in 1..Len(calls) : calls[j].key = calls[i].key => j = i
              /\ \A j \in (idx + 1)..Len(keys) : \A n \in 1..Len(calls) : calls[n].key # keys[j]
    /\ (pc = "error" /\ err # KeyError) => LastCallFailed

C7_Witness ==
    /\ pc = "error" /\ err \notin {KeyError, NoError}
    /\ idx = 1 /\ Len(keys) = 2 /\ Present(2)
    /\ Len(calls) = 1

(***************************************************************************)
(* C8: in a call that returns, the invocations of the wrapped service are  *)
(* exactly the configured keys that are present in the record, in the      *)
(* order of the key sequence, one invocation each, each on the record's    *)
(* value at that key.                                                      *)
(***************************************************************************)
C8_InvocationsFollowKeys ==
    pc = "done" =>
        /\ CallKeys = PresentKeys
        /\ \A i \in 1..Len(calls) : calls[i].img = data0[calls[i].key]

C8_Witness ==
    /\ cls = "SaveImaged" /\ pc = "done"
    /\ Len(calls) = 2
    /\ DOMAIN data0 = Keys

(***************************************************************************)
(* C9: with allow_missing_keys False the missing-key error is raised when  *)
(* the iteration reaches the absent key: every earlier configured key has  *)
(* been processed by then, and the service has been invoked neither for    *)
(* the absent key nor for any later one.                                   *)
(***************************************************************************)
C9_MissingKeyRaisedPerKey ==
    (pc = "error" /\ err = KeyError) =>
        /\ ~allow_missing_keys
        /\ ~Present(idx)
        /\ \A j \in 1..(idx - 1) : Present(j)
        /\ CallKeys = SubSeq(keys, 1, idx - 1)
        /\ \A n \in 1..Len(calls) : calls[n].out.ok
        /\ (\A i \in 1..Len(keys) : ~Present(i)) => calls = << >>

C9_Witness ==
    /\ cls = "LoadImaged" /\ pc = "error" /\ err = KeyError
    /\ idx = 2 /\ Len(calls) = 1

(***************************************************************************)
(* C10: register only appends to the loader's candidate list.  A call      *)
(* without a reader override uses the most recently registered reader      *)
(* that claims the input, ahead of earlier registered readers and of the   *)
(* defaults; a call with a reader override uses that reader.               *)
(***************************************************************************)
RegisteredSupporting(v) == {j \in 1..Len(registered) : verify_suffix(registered[j], v)}

MostRecent(v) == CHOOSE j \in RegisteredSupporting(v) : \A n \in RegisteredSupporting(v) : n <= j

====
